---------------------------- MODULE Spec2Model ----------------------------
(***************************************************************************)
(* Model of contracts/REFERENCE.py (DegenPizza v4 simulator): the scoring  *)
(* functions, the Game object (play_round, is_over), the module-level      *)
(* allocation generator _gen and the __main__ driver loop.                 *)
(*                                                                         *)
(* Numbers.  The program computes in Python floats.  The model computes    *)
(* in fixed point: a proportion, a quality, a uniqueness, a contribution   *)
(* and a score x is the integer round(x * BPS), and a token amount t is    *)
(* the integer t * BPS (BPS = 10000, the basis-point unit the program      *)
(* itself uses for recipes).  Every division, square root and exponential  *)
(* rounds its result to that grid, as every float operation rounds its     *)
(* result to the nearest double: results that are exact in the program     *)
(* (0.0, 0.5, 1.0, pot / n, a distance of exactly zero) are exact in the   *)
(* model, and results that are rounded in the program are rounded here,    *)
(* to a coarser grid.                                                      *)
(***************************************************************************)
EXTENDS Integers, Sequences, FiniteSets, TLC

(* ---- Game constants (REFERENCE.py lines 30-46) ------------------------ *)
NUM_INGREDIENTS == 6
UNITS_PER_PLAYER == 5
NUM_ROUNDS == 10
BPS == 10000
STARTING_SCORE == 100 * BPS
ANTE == 10 * BPS
ALPHA == 1
BETA == 3000

(* ---- Bounds of the model ---------------------------------------------- *)
MaxCalls == 3
MaxElimCalls == 11
NumSeeds == 1

VARIABLES
    player_names,     \* Game.player_names: sequence of player ids
    player_scores,    \* Game.player_scores: id -> balance (token * BPS)
    current_round,    \* Game.current_round
    recipe_main,      \* Game.recipe_main (basis points)
    recipe_final,     \* Game.recipe_final (basis points)
    history,          \* Game.history: sequence of RoundResult
    eliminated,       \* Game.eliminated: set of ids
    raised,           \* how the last play_round call ended
    ALL_ALLOCS,       \* module-level list filled by _gen
    stack,            \* call stack of _gen while the module is imported
    pc,               \* position of the __main__ driver
    rnd,              \* loop variable of the driver's for loop
    contributions,    \* the driver's dict of this round's allocations
    todo,             \* players of `active` the driver has still to ask
    player_rngs,      \* id -> state of that player's private generator
    global_rng,       \* state of the module-level generator of `random`
    ai_recipe         \* ai_strategy's local `recipe`, latest invocation

gameVars == <<player_names, player_scores, current_round, recipe_main,
              recipe_final, history, eliminated, raised>>
genVars == <<ALL_ALLOCS, stack>>
driverVars == <<pc, rnd, contributions, todo, player_rngs, global_rng, ai_recipe>>
vars == <<gameVars, genVars, driverVars>>

(* ---- Arithmetic helpers ----------------------------------------------- *)
\* F applied to the value of x, which is computed once
Eval(x, F(_)) == CHOOSE r \in {F(v) : v \in {x}} : TRUE

\* the sum of the first k entries of s
RECURSIVE SumFirst(_, _)
SumFirst(s, k) == IF k = 0 THEN 0 ELSE s[k] + SumFirst(s, k - 1)

SumSeq(s) == Eval(s, LAMBDA v : SumFirst(v, Len(v)))

MaxSeq(s) ==
    Eval(s, LAMBDA v : CHOOSE m \in {v[i] : i \in 1..Len(v)} :
                          \A i \in 1..Len(v) : v[i] <= m)

MinSeq(s) ==
    Eval(s, LAMBDA v : CHOOSE m \in {v[i] : i \in 1..Len(v)} :
                          \A i \in 1..Len(v) : v[i] >= m)

\* a / b for a >= 0, b > 0, rounded to the nearest grid point
RoundDiv(a, b) == (2 * a + b) \div (2 * b)

\* math.sqrt on the grid: floor of the square root of x > 0, by Newton's
\* iteration downwards from an estimate y that is not below the root
RECURSIVE SqrtFrom(_, _)
SqrtFrom(x, y) ==
    CHOOSE r \in {IF z >= y THEN y ELSE SqrtFrom(x, z) :
                    z \in {(y + x \div y) \div 2}} : TRUE

Sqrt(x) ==
    Eval(x, LAMBDA v :
        IF v = 0 THEN 0
        ELSE SqrtFrom(v, IF v < 10000 THEN 100
                         ELSE IF v < 1000000 THEN 1000
                         ELSE IF v < 100000000 THEN 10000 ELSE 46341))

\* math.exp(-x / BPS) * BPS for x >= 0: e^-k for the integer part k from
\* the table, times the alternating series of e^-f for the fraction f
ExpTable == <<10000, 3679, 1353, 498, 183, 67, 25, 9, 3, 1>>

RECURSIVE ExpSeries(_, _, _)
ExpSeries(f, k, term) ==
    IF term = 0 \/ k > 12 THEN 0
    ELSE LET next == (term * f) \div (k * BPS)
         IN  term - next + ExpSeries(f, k + 2, (next * f) \div ((k + 1) * BPS))

ExpNeg(x) ==
    Eval(x, LAMBDA v :
        LET k == v \div BPS
            f == v % BPS
        IN  IF k >= Len(ExpTable) THEN 0
            ELSE RoundDiv(ExpTable[k + 1] * ExpSeries(f, 1, BPS), BPS))

\* u ** a for a natural exponent a
RECURSIVE Pow(_, _)
Pow(u, a) == IF a = 0 THEN BPS ELSE RoundDiv(u * Pow(u, a - 1), BPS)

\* the list <<F(1), ..., F(n)>>, every element computed once
Tabulate(n, F(_)) == SubSeq([i \in 1..n |-> F(i)], 1, n)

\* a list with one entry per ingredient
PerIngredient(F(_)) == Tabulate(NUM_INGREDIENTS, F)

(* ---- Scoring functions (lines 107-258) -------------------------------- *)
compute_quality(pool, recipe) ==
    LET quality(pl, pool_total) ==
            LET proportions ==
                    PerIngredient(LAMBDA j : RoundDiv(pl[j] * BPS, pool_total))
                sq(props) == PerIngredient(LAMBDA j :
                    (props[j] - recipe[j]) * (props[j] - recipe[j]))
                distance == Sqrt(SumSeq(Eval(proportions, sq)))
            IN  IF pool_total = 0 THEN 0 ELSE ExpNeg(5 * distance)
    IN  Eval(pool, LAMBDA pl : Eval(SumSeq(pl), LAMBDA t : quality(pl, t)))

\* distances between allocations are carried to three decimals, which
\* keeps their squares inside TLC's 32-bit integers
DistScale == BPS \div 10

\* the pool: total units per ingredient over all the allocations
pool_of(contribs) ==
    PerIngredient(LAMBDA j :
        SumSeq(Tabulate(Len(contribs), LAMBDA i : contribs[i][j])))

\* compute_uniqueness returning the neutral 0.5 when everyone is identical
compute_uniqueness_neutral(contribs) ==
    LET n == Len(contribs)
        total == pool_of(contribs)
        avg == PerIngredient(LAMBDA j : RoundDiv(total[j] * DistScale, n))
        raw == Tabulate(n, LAMBDA i :
                  Sqrt(SumSeq(PerIngredient(LAMBDA j :
                     (contribs[i][j] * DistScale - avg[j])
                       * (contribs[i][j] * DistScale - avg[j])))))
        max_raw == MaxSeq(raw)
    IN  IF n <= 1 \/ max_raw = 0 THEN Tabulate(n, LAMBDA i : BPS \div 2)
        ELSE Tabulate(n, LAMBDA i : RoundDiv(raw[i] * BPS, max_raw))

\* compute_uniqueness normalising by the mean distance, not the largest
compute_uniqueness_by_mean(contribs) ==
    LET n == Len(contribs)
        total == pool_of(contribs)
        avg == PerIngredient(LAMBDA j : RoundDiv(total[j] * DistScale, n))
        raw == Tabulate(n, LAMBDA i :
                  Sqrt(SumSeq(PerIngredient(LAMBDA j :
                     (contribs[i][j] * DistScale - avg[j])
                       * (contribs[i][j] * DistScale - avg[j])))))
        sum_raw == SumSeq(raw)
    IN  IF n <= 1 THEN Tabulate(n, LAMBDA i : BPS \div 2)
        ELSE IF sum_raw = 0 THEN Tabulate(n, LAMBDA i : 0)
        ELSE Tabulate(n, LAMBDA i : RoundDiv(raw[i] * n * BPS, sum_raw))

compute_uniqueness(contribs) ==
    LET n == Len(contribs)
        average(total) ==
            PerIngredient(LAMBDA j : RoundDiv(total[j] * DistScale, n))
        distances(avg) ==
            Tabulate(n, LAMBDA i :
                Sqrt(SumSeq(PerIngredient(LAMBDA j :
                   (contribs[i][j] * DistScale - avg[j])
                     * (contribs[i][j] * DistScale - avg[j])))))
        normalised(raw) ==
            Eval(MaxSeq(raw), LAMBDA max_raw :
                IF max_raw = 0 THEN Tabulate(n, LAMBDA i : 0)
                ELSE Tabulate(n, LAMBDA i : RoundDiv(raw[i] * BPS, max_raw)))
    IN  IF n <= 1 THEN Tabulate(n, LAMBDA i : BPS \div 2)
        ELSE Eval(Eval(Eval(pool_of(contribs), average), distances), normalised)

\* compute_contribution with the marginal taken the other way round
compute_contribution_flipped(contribs, recipe) ==
    LET n == Len(contribs)
        pool == pool_of(contribs)
        q_all == compute_quality(pool, recipe)
        raw == Tabulate(n, LAMBDA i :
                  compute_quality(
                     PerIngredient(LAMBDA j : pool[j] - contribs[i][j]), recipe) - q_all)
        mn == MinSeq(raw)
        mx == MaxSeq(raw)
    IN  IF mx = mn THEN Tabulate(n, LAMBDA i : BPS \div 2)
        ELSE Tabulate(n, LAMBDA i : RoundDiv((raw[i] - mn) * BPS, mx - mn))

compute_contribution(contribs, recipe) ==
    LET n == Len(contribs)
        marginals(pool) ==
            Eval(compute_quality(pool, recipe), LAMBDA q_all :
                Tabulate(n, LAMBDA i :
                    q_all - compute_quality(
                       PerIngredient(LAMBDA j : pool[j] - contribs[i][j]), recipe)))
        normalised(raw) ==
            LET mn == MinSeq(raw)
                mx == MaxSeq(raw)
            IN  IF mx = mn THEN Tabulate(n, LAMBDA i : BPS \div 2)
                ELSE Tabulate(n, LAMBDA i : RoundDiv((raw[i] - mn) * BPS, mx - mn))
    IN  Eval(Eval(pool_of(contribs), marginals), normalised)

compute_scores(contribs, recipe) ==
    LET n == Len(contribs)
        result(uniq, contr) ==
            [quality |-> compute_quality(pool_of(contribs), recipe),
             uniqueness |-> uniq,
             contribution |-> contr,
             scores |-> Tabulate(n, LAMBDA i :
                           RoundDiv(Pow(uniq[i], ALPHA) * (BETA + contr[i]), BPS))]
    IN  Eval(compute_uniqueness(contribs), LAMBDA uniq :
            Eval(compute_contribution(contribs, recipe), LAMBDA contr :
                result(uniq, contr)))

(* ---- _gen, the pure reading (lines 420-428) --------------------------- *)
\* the list _gen(remaining, idx, current) appends to ALL_ALLOCS, in order
RECURSIVE gen_list(_, _, _)
gen_list(remaining, idx, current) ==
    IF idx = NUM_INGREDIENTS - 1 THEN << Append(current, remaining) >>
    ELSE LET RECURSIVE loop(_)
             loop(u) ==
                 IF u > remaining THEN <<>>
                 ELSE gen_list(remaining - u, idx + 1, Append(current, u))
                        \o loop(u + 1)
         IN  loop(0)

\* ALL_ALLOCS once the module is imported
AllAllocs == gen_list(UNITS_PER_PLAYER, 0, <<>>)

(* ---- Game (lines 284-394) --------------------------------------------- *)
\* active_players without the elimination filter
active_players_unfiltered == player_names

active_players == SelectSeq(player_names, LAMBDA p : p \notin eliminated)

\* current_recipe switching to the final recipe one round early
current_recipe_early(cr) ==
    IF cr >= NUM_ROUNDS - 1 THEN recipe_final ELSE recipe_main

\* Game.current_recipe, read with the round counter at cr
current_recipe(cr) == IF cr = NUM_ROUNDS THEN recipe_final ELSE recipe_main

\* is_over without the test on the number of active players
is_over_rounds_only == current_round >= NUM_ROUNDS

is_over == current_round >= NUM_ROUNDS \/ Len(active_players) <= 1

\* the three assertions of play_round on one submitted allocation
valid_allocation(a) ==
    /\ SumSeq(a) = UNITS_PER_PLAYER
    /\ \A j \in DOMAIN a : a[j] >= 0
    /\ Len(a) = NUM_INGREDIENTS

\* elimination at a balance equal to the ante as well
cannot_afford_inclusive(balance) == balance <= ANTE

\* elimination of whoever cannot afford two more antes
cannot_afford_twice(balance) == balance < 2 * ANTE

\* the balance below which a participant is eliminated after its payout
cannot_afford(balance) == balance < ANTE

\* payout_of with the flat split handing the whole pot to each participant
payout_of_whole_pot(scores, idx, total_score, pot) ==
    IF total_score = 0 THEN pot
    ELSE RoundDiv(scores[idx] * BPS, total_score) * (pot \div BPS)

\* payout_of with the share taken of one ante instead of the pot
payout_of_one_ante(scores, idx, total_score, pot) ==
    IF total_score = 0 THEN pot \div Len(scores)
    ELSE RoundDiv(scores[idx] * BPS, total_score) * (ANTE \div BPS)

\* payout of participant idx: flat split, or pro rata by score.  The pot is
\* a whole number of tokens, so share * pot is exact on the grid.
payout_of(scores, idx, total_score, pot) ==
    IF total_score = 0 THEN pot \div Len(scores)
    ELSE RoundDiv(scores[idx] * BPS, total_score) * (pot \div BPS)

\* the RoundResult play_round builds for the participants players_in.
\* The scores are computed once and bound as a value.
round_result(contribs, players_in, round, recipe) ==
    LET n == Len(players_in)
        pot == ANTE * n
        contribs_list == Tabulate(n, LAMBDA i : contribs[players_in[i]])
        record(sc) ==
            LET total_score == SumSeq(sc.scores)
                row(i) == [ingredients |-> contribs_list[i],
                           uniqueness |-> sc.uniqueness[i],
                           contribution |-> sc.contribution[i],
                           score |-> sc.scores[i],
                           payout |-> payout_of(sc.scores, i, total_score, pot),
                           net |-> payout_of(sc.scores, i, total_score, pot) - ANTE]
            IN  [round_num |-> round,
                 recipe |-> recipe,
                 quality |-> sc.quality,
                 pot |-> pot,
                 players |-> [p \in {players_in[i] : i \in 1..n} |->
                                row(CHOOSE i \in 1..n : players_in[i] = p)]]
    IN  CHOOSE r \in {record(sc) : sc \in {compute_scores(contribs_list, recipe)}} : TRUE

\* Game.play_round(contribs): contribs is a function id -> allocation
play_round(contribs) ==
    LET round == current_round + 1
        recipe == current_recipe(round)
        active == active_players
        players_in == SelectSeq(active, LAMBDA p : p \in DOMAIN contribs)
        n == Len(players_in)
    IN  /\ current_round' = round
        /\ UNCHANGED <<player_names, recipe_main, recipe_final>>
        /\ IF \E i \in 1..n : ~valid_allocation(contribs[players_in[i]])
           THEN \* an assert fails before any ante is taken
                /\ raised' = "AssertionError"
                /\ UNCHANGED <<player_scores, history, eliminated>>
           ELSE IF n = 0
           THEN \* compute_contribution: min() of an empty list
                /\ raised' = "ValueError"
                /\ UNCHANGED <<player_scores, history, eliminated>>
           ELSE \E result \in {round_result(contribs, players_in, round, recipe)} :
                \E balance \in {[p \in DOMAIN player_scores |->
                      IF p \in DOMAIN result.players
                      THEN player_scores[p] - ANTE + result.players[p].payout
                      ELSE player_scores[p]]} :
                    /\ raised' = "returned"
                    /\ player_scores' = balance
                    /\ eliminated' = eliminated \cup
                          {p \in DOMAIN result.players : cannot_afford(balance[p])}
                    /\ history' = Append(history, result)

(* ---- Inputs of the model ---------------------------------------------- *)
Names == <<"p1", "p2", "p3">>

\* the recipe of the spec's example, and two that generate_recipe can return
RecipeA == <<3000, 2500, 2000, 1300, 700, 500>>
RecipeB == <<3500, 2200, 1800, 1200, 800, 500>>
RecipePairs == {<<RecipeA, RecipeB>>, <<RecipeB, RecipeA>>}

\* what Game(player_names = names) with the two recipes constructs
NewGame(names, recipes) ==
    /\ player_names = names
    /\ player_scores = [p \in {names[i] : i \in 1..Len(names)} |-> STARTING_SCORE]
    /\ current_round = 0
    /\ recipe_main = recipes[1]
    /\ recipe_final = recipes[2]
    /\ history = <<>>
    /\ eliminated = {}
    /\ raised = "none"

Imported == ALL_ALLOCS = AllAllocs /\ stack = <<>>

NoDriver ==
    /\ pc = "none"
    /\ rnd = 0
    /\ contributions = <<>>
    /\ todo = <<>>
    /\ player_rngs = <<>>
    /\ global_rng = 0
    /\ ai_recipe = <<>>

\* dicts handed to play_round by a direct caller
Dict(a1, a2, a3) == [p \in {"p1", "p2", "p3"} |->
                       IF p = "p1" THEN a1 ELSE IF p = "p2" THEN a2 ELSE a3]
Pair(a1, a2) == [p \in {"p1", "p2"} |-> IF p = "p1" THEN a1 ELSE a2]

Submissions ==
    { Pair(<<3, 1, 1, 0, 0, 0>>, <<0, 0, 0, 0, 0, 5>>),
      Dict(<<1, 1, 1, 1, 1, 0>>, <<1, 1, 1, 1, 1, 0>>, <<1, 1, 1, 1, 1, 0>>),
      Dict(<<2, 1, 1, 1, 0, 0>>, <<3, 2, 0, 0, 0, 0>>, <<1, 0, 2, 2, 0, 0>>),
      Dict(<<1, 0, 0, 0, 3, 1>>, <<0, 0, 3, 0, 0, 2>>, <<0, 0, 0, 0, 0, 5>>),
      Dict(<<1, 1, 1, 1, 1, 1>>, <<2, 2, 1, 0, 0, 0>>, <<0, 1, 1, 1, 1, 1>>),
      Pair(<<6, -1, 0, 0, 0, 0>>, <<2, 2, 1, 0, 0, 0>>),
      Pair(<<5, 0, 0, 0, 0>>, <<2, 2, 1, 0, 0, 0>>),
      <<>> }

\* the two dicts of the long runs: in the first p1 plays the average of
\* the other two (uniqueness 0, payout 0), in the second all play alike
ElimSubmissions ==
    { Dict(<<2, 1, 1, 1, 0, 0>>, <<3, 2, 0, 0, 0, 0>>, <<1, 0, 2, 2, 0, 0>>),
      Dict(<<1, 1, 1, 1, 1, 0>>, <<1, 1, 1, 1, 1, 0>>, <<1, 1, 1, 1, 1, 0>>) }

(* ---- Spec: a fresh game and direct calls of play_round ---------------- *)
Init ==
    /\ \E k \in 1..Len(Names), r \in RecipePairs : NewGame(SubSeq(Names, 1, k), r)
    /\ Imported
    /\ NoDriver

Settle ==
    /\ current_round < MaxCalls
    /\ \E c \in Submissions : play_round(c)
    /\ UNCHANGED <<genVars, driverVars>>

Next == Settle

Spec == Init /\ [][Next]_vars

(* ---- SpecElim: a fresh three-player game, long runs of direct calls --- *)
InitElim ==
    /\ \E r \in RecipePairs : NewGame(Names, r)
    /\ Imported
    /\ NoDriver

SettleElim ==
    /\ current_round < MaxElimCalls
    /\ \E c \in ElimSubmissions : play_round(c)
    /\ UNCHANGED <<genVars, driverVars>>

NextElim == SettleElim

SpecElim == InitElim /\ [][NextElim]_vars

(* ---- SpecScore: the first round of a fresh game, scored on any ------- *)
(* ---- allocations of a spread of ALL_ALLOCS ---------------------------- *)
ScoreAllocs ==
    { <<5, 0, 0, 0, 0, 0>>, <<0, 0, 0, 0, 0, 5>>, <<1, 1, 1, 1, 1, 0>>,
      <<2, 1, 1, 1, 0, 0>>, <<0, 0, 3, 0, 0, 2>>, <<3, 2, 0, 0, 0, 0>> }

InitScore ==
    /\ \E k \in 1..Len(Names), r \in RecipePairs : NewGame(SubSeq(Names, 1, k), r)
    /\ Imported
    /\ NoDriver

SettleFirst ==
    /\ current_round = 0
    /\ \E c \in [{player_names[i] : i \in 1..Len(player_names)} -> ScoreAllocs] :
          play_round(c)
    /\ UNCHANGED <<genVars, driverVars>>

NextScore == SettleFirst

SpecScore == InitScore /\ [][NextScore]_vars

(* ---- SpecGen: the import of the module, _gen call by call ------------- *)
\* a frame of _gen: its arguments and the loop variable u
Frame(remaining, idx, current) ==
    [remaining |-> remaining, idx |-> idx, current |-> current, u |-> 0]

Top == stack[Len(stack)]
Pop == SubSeq(stack, 1, Len(stack) - 1)

\* line 423: the frame that fills the last ingredient
gen_last(idx) == idx = NUM_INGREDIENTS - 1

\* the loop of line 426 written as range(remaining)
gen_in_range_short(u, remaining) == u < remaining

\* line 426: for u in range(remaining + 1)
gen_in_range(u, remaining) == u <= remaining

NoGame ==
    /\ player_names = <<>>
    /\ player_scores = <<>>
    /\ current_round = 0
    /\ recipe_main = <<>>
    /\ recipe_final = <<>>
    /\ history = <<>>
    /\ eliminated = {}
    /\ raised = "none"

\* line 428: _gen(UNITS_PER_PLAYER, 0, []) has just been called
InitGen ==
    /\ ALL_ALLOCS = <<>>
    /\ stack = << Frame(UNITS_PER_PLAYER, 0, <<>>) >>
    /\ NoGame
    /\ NoDriver

\* lines 423-425: append current + [remaining] and return
gen_append ==
    /\ stack # <<>>
    /\ gen_last(Top.idx)
    /\ ALL_ALLOCS' = Append(ALL_ALLOCS, Append(Top.current, Top.remaining))
    /\ stack' = Pop
    /\ UNCHANGED <<gameVars, driverVars>>

\* line 427: the recursive call for the next u
gen_call ==
    /\ stack # <<>>
    /\ ~gen_last(Top.idx)
    /\ gen_in_range(Top.u, Top.remaining)
    /\ stack' = Append([stack EXCEPT ![Len(stack)].u = @ + 1],
                       Frame(Top.remaining - Top.u, Top.idx + 1,
                             Append(Top.current, Top.u)))
    /\ UNCHANGED <<ALL_ALLOCS, gameVars, driverVars>>

\* line 426: the for loop is exhausted, the call returns
gen_return ==
    /\ stack # <<>>
    /\ ~gen_last(Top.idx)
    /\ ~gen_in_range(Top.u, Top.remaining)
    /\ stack' = Pop
    /\ UNCHANGED <<ALL_ALLOCS, gameVars, driverVars>>

NextGen == gen_append \/ gen_call \/ gen_return

SpecGen == InitGen /\ [][NextGen]_vars

(* ---- AI player (lines 399-414 and 431-501) ---------------------------- *)
\* the greedy allocation stopping one unit short of the budget
optimal_allocation_short(recipe) ==
    LET RECURSIVE place(_, _)
        place(allocated, k) ==
            IF k = 0 THEN allocated
            ELSE Eval(allocated, LAMBDA alloc :
                   LET current_total == SumSeq(alloc) + 1
                       key(j) == recipe[j] * current_total - alloc[j] * BPS
                       best_j == CHOOSE j \in 1..NUM_INGREDIENTS :
                                    /\ \A i \in 1..NUM_INGREDIENTS : key(i) <= key(j)
                                    /\ \A i \in 1..(j - 1) : key(i) < key(j)
                   IN  place([alloc EXCEPT ![best_j] = @ + 1], k - 1))
    IN  place(PerIngredient(LAMBDA j : 0), UNITS_PER_PLAYER - 1)

\* optimal_allocation(recipe): each unit goes to the first ingredient j of
\* the largest recipe[j] - alloc[j] / current_total; the keys are compared
\* after multiplying them by current_total * BPS, which is exact
optimal_allocation(recipe) ==
    LET RECURSIVE place(_, _)
        place(allocated, k) ==
            IF k = 0 THEN allocated
            ELSE Eval(allocated, LAMBDA alloc :
                   LET current_total == SumSeq(alloc) + 1
                       key(j) == recipe[j] * current_total - alloc[j] * BPS
                       best_j == CHOOSE j \in 1..NUM_INGREDIENTS :
                                    /\ \A i \in 1..NUM_INGREDIENTS : key(i) <= key(j)
                                    /\ \A i \in 1..(j - 1) : key(i) < key(j)
                   IN  place([alloc EXCEPT ![best_j] = @ + 1], k - 1))
    IN  place(PerIngredient(LAMBDA j : 0), UNITS_PER_PLAYER)

\* One step of a generator.  random.Random is modelled by a linear
\* congruential generator of full period on 0..255.
rng_step(s) == (5 * s + 3) % 256

\* line 458: prng.random() < 0.5, read off the state after the draw
coin(s) == s < 128

\* line 495: prng.gauss(0, 0.01), read off the state after the draw: one of
\* eight offsets between -0.028 and +0.028, symmetric about zero
gauss(s) == ((s \div 32) * 2 - 7) * 40

\* lines 451-465: estimated_others, and the generator after its draws
estimate_others(name, recipe, prng) ==
    LET last == history[Len(history)]
        known == IF history = <<>> THEN <<>>
                 ELSE SelectSeq(player_names, LAMBDA p :
                         p \in DOMAIN last.players /\ p # name /\ p \notin eliminated)
        wanted == Len(active_players) - 1
        RECURSIVE guess(_, _, _)
        guess(i, s, greedy) ==
            IF i > Len(known) THEN [others |-> <<>>, prng |-> s]
            ELSE Eval(guess(i + 1, rng_step(s), greedy), LAMBDA rest :
                   [others |-> << IF coin(rng_step(s))
                                  THEN last.players[known[i]].ingredients
                                  ELSE greedy >> \o rest.others,
                    prng |-> rest.prng])
        filled(guessed, greedy) ==
            Eval(guessed.others \o
                    Tabulate(IF wanted > Len(guessed.others)
                             THEN wanted - Len(guessed.others) ELSE 0,
                             LAMBDA i : greedy),
                 LAMBDA padded :
                    [others |-> SubSeq(padded, 1, IF wanted < 0 THEN 0 ELSE wanted),
                     prng |-> guessed.prng])
    IN  Eval(optimal_allocation(recipe), LAMBDA greedy :
            Eval(guess(1, prng, greedy), LAMBDA guessed : filled(guessed, greedy)))

\* lines 468-493: the expected score of candidate alloc, before the noise
ai_expected(alloc, estimated_others, recipe) ==
    LET expected(all_contribs, pool, target) ==
            LET n == Len(all_contribs)
                average == PerIngredient(LAMBDA j : RoundDiv(pool[j] * DistScale, n))
                distances(avg) ==
                    Tabulate(n, LAMBDA i :
                        Sqrt(SumSeq(PerIngredient(LAMBDA j :
                           (all_contribs[i][j] * DistScale - avg[j])
                             * (all_contribs[i][j] * DistScale - avg[j])))))
                uniq(all_dists) ==
                    Eval(MaxSeq(all_dists), LAMBDA max_d :
                        IF max_d > 0 THEN RoundDiv(all_dists[1] * BPS, max_d) ELSE 0)
                q_all == compute_quality(pool, target)
                q_without == compute_quality(
                                PerIngredient(LAMBDA j : pool[j] - all_contribs[1][j]),
                                target)
                clamped(centred) == IF centred < 0 THEN 0
                                    ELSE IF centred > BPS THEN BPS ELSE centred
                my_uniq == Eval(Eval(average, distances), uniq)
                my_contrib == Eval(BPS \div 2 + (q_all - q_without) * 5, clamped)
            IN  RoundDiv(Pow(my_uniq, ALPHA) * (BETA + my_contrib), BPS)
    IN  Eval(<< alloc >> \o estimated_others, LAMBDA all_contribs :
            Eval(pool_of(all_contribs), LAMBDA pool :
                Eval(recipe, LAMBDA target : expected(all_contribs, pool, target))))

\* lines 468-499, one pass of the loop body: candidate i against the best
\* so far; best is [alloc, expected, prng]
ai_try(i, best, estimated_others, recipe) ==
    LET drawn == rng_step(best.prng)
    IN  Eval(ai_expected(ALL_ALLOCS[i], estimated_others, recipe) + gauss(drawn),
             LAMBDA expected :
                IF expected > best.expected
                THEN [alloc |-> ALL_ALLOCS[i], expected |-> expected, prng |-> drawn]
                ELSE [best EXCEPT !.prng = drawn])

\* line 468: for alloc in ALL_ALLOCS, candidates lo..hi in order; the range
\* is run as its first half, and when that has finished, its second half
RECURSIVE ai_search(_, _, _, _, _)
ai_search(lo, hi, best, estimated_others, recipe) ==
    IF lo > hi THEN best
    ELSE IF lo = hi THEN ai_try(lo, best, estimated_others, recipe)
    ELSE CHOOSE done \in
            {ai_search(mid + 1, h, first, others, recipe) :
               mid \in {(lo + hi) \div 2}, h \in {hi}, others \in {estimated_others},
               first \in {ai_search(lo, (lo + hi) \div 2, best, estimated_others,
                                    recipe)}} : TRUE

\* ai_strategy(name, rnd, game, prng): the allocation chosen, the state of
\* prng after the call, and the recipe the call worked with (line 447)
ai_strategy(name, prng) ==
    Eval(current_recipe(current_round), LAMBDA recipe :
        Eval(estimate_others(name, recipe, prng), LAMBDA est :
            Eval(ai_search(1, Len(ALL_ALLOCS),
                           [alloc |-> optimal_allocation(recipe),
                            expected |-> -999 * BPS, prng |-> est.prng],
                           est.others, recipe),
                 LAMBDA found :
                    [alloc |-> found.alloc, prng |-> found.prng, recipe |-> recipe])))

(* ---- SpecDriver: the __main__ game loop (lines 571-618) --------------- *)
\* line 584: random.Random(hash(n) + 42).  hash(n) differs from name to name
\* and from process to process; h is the process's part of it, i the name's
Seeds == 0..(NumSeeds - 1)

seed_of(i, h) == (101 * i + 64 * h + 42) % 256

\* line 573: NUM_PLAYERS = int(sys.argv[1])
PlayerCounts == 0..Len(Names)

\* every player is handed the generator of the first player
stream_of_first(p) == player_names[1]

\* line 610: player p is handed its own generator, player_rngs[p]
stream_of(p) == p

\* lines 572-584.  The recipes generate_recipe draws with the global
\* generator are taken from RecipePairs; the generator is left in some state.
InitDriver ==
    /\ \E k \in PlayerCounts, r \in RecipePairs, h \in Seeds :
          /\ NewGame(SubSeq(Names, 1, k), r)
          /\ player_rngs = [p \in {Names[i] : i \in 1..k} |->
                              seed_of(CHOOSE i \in 1..k : Names[i] = p, h)]
    /\ Imported
    /\ pc = "for"
    /\ rnd = 1
    /\ contributions = <<>>
    /\ todo = <<>>
    /\ global_rng = 42
    /\ ai_recipe = <<>>

\* lines 606-608: a round begins
driver_round ==
    /\ pc = "for"
    /\ pc' = "ask"
    /\ todo' = active_players
    /\ contributions' = <<>>
    /\ UNCHANGED <<rnd, player_rngs, global_rng, ai_recipe, gameVars, genVars>>

\* lines 609-610: the next active player chooses
driver_ask ==
    /\ pc = "ask"
    /\ todo # <<>>
    /\ \E choice \in {ai_strategy(Head(todo), player_rngs[stream_of(Head(todo))])} :
          /\ contributions' = [p \in DOMAIN contributions \cup {Head(todo)} |->
                                 IF p = Head(todo) THEN choice.alloc
                                 ELSE contributions[p]]
          /\ player_rngs' = [player_rngs EXCEPT ![stream_of(Head(todo))] = choice.prng]
          /\ ai_recipe' = choice.recipe
    /\ todo' = Tail(todo)
    /\ UNCHANGED <<pc, rnd, global_rng, gameVars, genVars>>

\* lines 611-612: nobody is left to play
driver_break ==
    /\ pc = "ask"
    /\ todo = <<>>
    /\ DOMAIN contributions = {}
    /\ pc' = "done"
    /\ UNCHANGED <<rnd, contributions, todo, player_rngs, global_rng, ai_recipe,
                   gameVars, genVars>>

\* lines 613-616 and the for statement: settle, then stop or go on
driver_play ==
    /\ pc = "ask"
    /\ todo = <<>>
    /\ DOMAIN contributions # {}
    /\ play_round(contributions)
    /\ IF is_over' \/ rnd = NUM_ROUNDS
       THEN pc' = "done" /\ rnd' = rnd
       ELSE pc' = "for" /\ rnd' = rnd + 1
    /\ UNCHANGED <<contributions, todo, player_rngs, global_rng, ai_recipe, genVars>>

NextDriver == driver_round \/ driver_ask \/ driver_break \/ driver_play

SpecDriver == InitDriver /\ [][NextDriver]_vars

\* The driver run to its end.  It is one sequential process that nothing
\* suspends: whenever it has a next step it takes it.  The games that stop
\* early (fewer than two players) start from every seed and recipe order,
\* the games of two and three players from the first of each.
InitLive ==
    /\ InitDriver
    /\ Len(player_names) >= 2 =>
          /\ recipe_main = RecipeA
          /\ \A i \in 1..Len(player_names) : player_rngs[Names[i]] = seed_of(i, 0)

LiveDriver == InitLive /\ [][NextDriver]_vars /\ WF_vars(NextDriver)

(* ======================================================================= *)
(* Properties                                                              *)
(* ======================================================================= *)
Abs(x) == IF x < 0 THEN -x ELSE x

Players == {player_names[i] : i \in 1..Len(player_names)}

TotalBalance ==
    SumSeq(Tabulate(Len(player_names), LAMBDA i : player_scores[player_names[i]]))

StartingTotal == Len(player_names) * STARTING_SCORE

Last(h) == h[Len(h)]

Participants(r) == DOMAIN r.players

\* the sum of f[x] over the elements x of S
RECURSIVE SumOver(_, _)
SumOver(S, f) ==
    IF S = {} THEN 0
    ELSE LET x == CHOOSE y \in S : TRUE IN f[x] + SumOver(S \ {x}, f)

PayoutSum(r) == SumOver(Participants(r), [p \in Participants(r) |-> r.players[p].payout])

FlatSplit(r) == \A p \in Participants(r) : r.players[p].score = 0

\* The most the payouts of record r can differ from its pot: each of the
\* n shares is rounded once, by at most half a unit in its last place.
RoundingTolerance(r) ==
    IF FlatSplit(r) THEN 0
    ELSE (Cardinality(Participants(r)) \div 2) * (r.pot \div BPS)

AllAlike(r) ==
    \A p, q \in Participants(r) : r.players[p].ingredients = r.players[q].ingredients

\* a call of play_round has settled a round
Settled == history' # history

PaidAnteBack(p) ==
    /\ Last(history').players[p].payout = ANTE
    /\ Last(history').players[p].net = 0
    /\ player_scores'[p] = player_scores[p]

\* C3 as stated: whenever all participants submit the identical allocation,
\* every participant has uniqueness 0 and score 0, is paid exactly the
\* ante, has net 0 and keeps its balance.
C3_IdenticalAllZero ==
    [][(Settled /\ AllAlike(Last(history'))) =>
          \A p \in Participants(Last(history')) :
              /\ Last(history').players[p].uniqueness = 0
              /\ Last(history').players[p].score = 0
              /\ PaidAnteBack(p)]_vars

\* C3, amended: whenever all participants submit the identical allocation,
\* every participant is paid exactly the ante, has net 0 and keeps its
\* balance; with two or more participants every uniqueness and score is 0,
\* and a single participant has uniqueness 0.5 and a positive score.
C3_IdenticalPaysAnte ==
    [][(Settled /\ AllAlike(Last(history'))) =>
          \A p \in Participants(Last(history')) :
              /\ PaidAnteBack(p)
              /\ IF Cardinality(Participants(Last(history'))) >= 2
                 THEN /\ Last(history').players[p].uniqueness = 0
                      /\ Last(history').players[p].score = 0
                 ELSE /\ Last(history').players[p].uniqueness = BPS \div 2
                      /\ Last(history').players[p].score > 0]_vars

\* three players have just played the identical allocation
C3_Witness ==
    /\ history # <<>>
    /\ AllAlike(Last(history))
    /\ Cardinality(Participants(Last(history))) = 3
    /\ \A p \in Participants(Last(history)) : Last(history).players[p].payout = ANTE

(* ---- C4 --------------------------------------------------------------- *)
\* C4: an eliminated player stays eliminated, keeps its balance, and is not
\* among the participants of any later round.
C4_EliminationPermanent ==
    [][\A p \in eliminated :
          /\ p \in eliminated'
          /\ player_scores'[p] = player_scores[p]
          /\ Settled => p \notin Participants(Last(history'))]_vars

\* p1 was eliminated by round 10 and round 11, for which an allocation of
\* p1 was submitted too, has been settled without it
C4_Witness ==
    /\ "p1" \in eliminated
    /\ Len(history) = NUM_ROUNDS + 1
    /\ "p1" \in Participants(history[NUM_ROUNDS])
    /\ Participants(Last(history)) = {"p2", "p3"}

(* ---- C5 --------------------------------------------------------------- *)
\* C5: in every state reached from a fresh game a player is eliminated
\* exactly when its balance is below the ante, and no balance is negative.
C5_EliminatedIffBelowAnte ==
    \A p \in Players :
        /\ p \in eliminated <=> player_scores[p] < ANTE
        /\ player_scores[p] >= 0

\* somebody has been eliminated while another player holds exactly the ante
\* or more
C5_Witness ==
    /\ eliminated # {}
    /\ \E p \in Players : p \notin eliminated

(* ---- C6 --------------------------------------------------------------- *)
\* C6 as stated: once is_over() is true, no later step changes a balance,
\* appends a RoundResult or advances the round counter.
C6_NoSettlementAfterOver ==
    [][is_over =>
          /\ player_scores' = player_scores
          /\ history' = history
          /\ current_round' = current_round]_vars

(* ---- C7 --------------------------------------------------------------- *)
\* C7 as stated: a call of play_round that fails validation leaves the game
\* exactly as it was: balances, eliminated set, history and round counter.
C7_FailedValidationChangesNothing ==
    [][raised' = "AssertionError" =>
          /\ player_scores' = player_scores
          /\ eliminated' = eliminated
          /\ history' = history
          /\ current_round' = current_round]_vars

(* ---- C8 --------------------------------------------------------------- *)
\* C8: in a game run by the driver loop the k-th RoundResult has round
\* index k and carries the main recipe for k < NUM_ROUNDS and the final
\* recipe for k = NUM_ROUNDS.
C8_RecipePerRound ==
    \A k \in 1..Len(history) :
        /\ history[k].round_num = k
        /\ history[k].recipe = IF k = NUM_ROUNDS THEN recipe_final ELSE recipe_main

\* the driver has settled all NUM_ROUNDS rounds, the last with the final
\* recipe, which differs from the main one
C8_Witness ==
    /\ pc = "done"
    /\ Len(history) = NUM_ROUNDS
    /\ Last(history).recipe = recipe_final
    /\ recipe_final # recipe_main

(* ---- C9 --------------------------------------------------------------- *)
Range(s) == {s[i] : i \in 1..Len(s)}

\* every vector of NUM_INGREDIENTS entries in 0..UNITS_PER_PLAYER with sum
\* UNITS_PER_PLAYER
Compositions ==
    {v \in [1..NUM_INGREDIENTS -> 0..UNITS_PER_PLAYER] : SumSeq(v) = UNITS_PER_PLAYER}

\* C9: what _gen has appended is pairwise distinct and valid, and once the
\* call of line 428 has returned ALL_ALLOCS holds exactly 252 allocations,
\* among them every composition of 5 into 6 parts.
C9_GenComplete ==
    /\ Cardinality(Range(ALL_ALLOCS)) = Len(ALL_ALLOCS)
    /\ \A i \in 1..Len(ALL_ALLOCS) : valid_allocation(ALL_ALLOCS[i])
    /\ stack = <<>> =>
          /\ Len(ALL_ALLOCS) = 252
          /\ \A v \in Compositions : v \in Range(ALL_ALLOCS)

\* _gen has returned to the module level
C9_Witness == stack = <<>> /\ Len(ALL_ALLOCS) > 0

(* ---- C10 -------------------------------------------------------------- *)
AllocA == <<3, 1, 1, 0, 0, 0>>
AllocB == <<0, 0, 0, 0, 0, 5>>

\* record r is the example round: two participants, the example recipe, a
\* plays AllocA and b plays AllocB
ExampleRound(r, a, b) ==
    /\ Participants(r) = {a, b}
    /\ r.recipe = RecipeA
    /\ r.players[a].ingredients = AllocA
    /\ r.players[b].ingredients = AllocB

\* C10 as stated: in the example round A's uniqueness and contribution are
\* both strictly higher than B's, A's net is positive and B's negative.
C10_ExampleAsStated ==
    \A k \in 1..Len(history) : \A a, b \in Participants(history[k]) :
        ExampleRound(history[k], a, b) =>
            /\ history[k].players[a].uniqueness > history[k].players[b].uniqueness
            /\ history[k].players[a].contribution > history[k].players[b].contribution
            /\ history[k].players[a].net > 0
            /\ history[k].players[b].net < 0

\* C10, amended: in the example round A's uniqueness equals B's (both are
\* 1, as for any two participants that differ), A's contribution is
\* strictly higher than B's, A's net is positive and B's negative.
C10_ExampleEqualUniqueness ==
    \A k \in 1..Len(history) : \A a, b \in Participants(history[k]) :
        ExampleRound(history[k], a, b) =>
            /\ history[k].players[a].uniqueness = BPS
            /\ history[k].players[b].uniqueness = BPS
            /\ history[k].players[a].contribution > history[k].players[b].contribution
            /\ history[k].players[a].net > 0
            /\ history[k].players[b].net < 0

\* the example round has been played
C10_Witness ==
    \E k \in 1..Len(history) : ExampleRound(history[k], "p1", "p2")

(* ---- C11 -------------------------------------------------------------- *)
\* the allocation player q is given if it is asked in the present state of
\* the game with the generators in the states rngs
would_choose(q, rngs) == ai_strategy(q, rngs[stream_of(q)]).alloc

C12_ValuesInUnitInterval ==
    /\ \A k \in 1..Len(history) : \A p \in Participants(history[k]) :
          /\ history[k].players[p].uniqueness \in 0..BPS
          /\ history[k].players[p].contribution \in 0..BPS
    /\ \A k \in 1..Len(history) :
          LET r == history[k]
              order == SelectSeq(player_names, LAMBDA p : p \in Participants(r))
              list == [i \in 1..Len(order) |-> r.players[order[i]].ingredients]
          IN  /\ \A i \in 1..Len(list) :
                    compute_uniqueness(list)[i] \in 0..BPS
              /\ \A i \in 1..Len(list) :
                    compute_contribution(list, r.recipe)[i] \in 0..BPS

\* a round of three in which both bounds are met by the contributions and
\* by the uniquenesses, and one uniqueness lies strictly between them
C12_Witness ==
    \E k \in 1..Len(history) :
        /\ Cardinality(Participants(history[k])) = 3
        /\ \E p, q, w \in Participants(history[k]) :
              /\ history[k].players[p].contribution = 0
              /\ history[k].players[q].contribution = BPS
              /\ history[k].players[p].uniqueness = BPS
              /\ history[k].players[w].uniqueness > 0
              /\ history[k].players[w].uniqueness < BPS

(* ---- C13 -------------------------------------------------------------- *)
\* C13 as stated: in every round played by the driver loop, the last round
\* included, the recipe ai_strategy worked with is the recipe play_round
\* selected and recorded for that round.
C13_AiRecipeIsRoundRecipe ==
    (history # <<>> /\ pc \in {"for", "done"}) => Last(history).recipe = ai_recipe

(* ---- C14 -------------------------------------------------------------- *)
\* C14: every allocation ai_strategy returns has NUM_INGREDIENTS
\* non-negative entries summing to UNITS_PER_PLAYER: it is a member of the
\* enumerated set or the greedy fallback, which is valid itself for either
\* recipe; a round the driver submits never fails play_round's validation.
C14_AiAllocationValid ==
    /\ \A p \in DOMAIN contributions :
          /\ valid_allocation(contributions[p])
          /\ \/ contributions[p] \in Range(ALL_ALLOCS)
             \/ contributions[p] = optimal_allocation(ai_recipe)
    /\ valid_allocation(optimal_allocation(recipe_main))
    /\ valid_allocation(optimal_allocation(recipe_final))
    /\ raised # "AssertionError"

\* a round of three allocations chosen by ai_strategy has been settled, and
\* one of them is not the greedy allocation
C14_Witness ==
    /\ raised = "returned"
    /\ history # <<>>
    /\ DOMAIN contributions = {"p1", "p2", "p3"}
    /\ \A p \in DOMAIN contributions :
          Last(history).players[p].ingredients = contributions[p]
    /\ \E p \in DOMAIN contributions :
          contributions[p] # optimal_allocation(ai_recipe)

(* ---- C15 -------------------------------------------------------------- *)
\* C15: the driver loop always stops; it performs at most NUM_ROUNDS
\* settlements, each settlement appends one RoundResult and advances the
\* round counter by exactly one, and whenever the loop has stopped
\* is_over() is true.
C15_DriverStops ==
    /\ <>(pc = "done")
    /\ [](Len(history) <= NUM_ROUNDS)
    /\ [](pc = "done" => is_over)
    /\ [][history' # history =>
             /\ Len(history') = Len(history) + 1
             /\ current_round' = current_round + 1]_vars

\* the loop has stopped after settling all NUM_ROUNDS rounds of a game of
\* three players
C15_Witness ==
    /\ pc = "done"
    /\ Len(player_names) = 3
    /\ Len(history) = NUM_ROUNDS
    /\ current_round = NUM_ROUNDS

=============================================================================
